---- MODULE Spec2Model ----
(***************************************************************************)
(* Dual-layer toll system: the decision engine of DualLayerTollSystem      *)
(* (src/integration/toll_system.py) driven by the run_camera_feed loop,    *)
(* with the authorization lookup of LicensePlateRecognizer                 *)
(* (src/license_plate/plate_recognizer.py).                                *)
(*                                                                         *)
(* Plate texts and the lines of the authorized-plates file are sequences   *)
(* of one-character strings, so that str.upper() and str.strip() are       *)
(* computed character by character.  A detection carries only its 'text'   *)
(* key: 'bbox', 'confidence' and 'contour' are read by the drawing code     *)
(* only.  Timestamps and id(current_session) of a violation entry are not  *)
(* modelled.                                                               *)
(*                                                                         *)
(* PlateTracker (src/license_plate/plate_tracker.py) is modelled next to   *)
(* it and driven by its own caller (TrackerSpec): the toll system never    *)
(* constructs one.  The tracker's detections carry a 'bbox' and a text     *)
(* that is a plain string; distances are compared on their squares.        *)
(***************************************************************************)
EXTENDS Integers, Sequences, FiniteSets, TLC

VARIABLES pc, frame_count, current_session, violation_log, store,
          cycle, results, entries, before, feed_error

vars == <<pc, frame_count, current_session, violation_log, store,
          cycle, results, entries, before, feed_error>>

\* The state of a PlateTracker (src/license_plate/plate_tracker.py) and of the
\* caller that drives it: the toll system never constructs one, so the tracker
\* is driven on its own.
VARIABLES next_object_id, objects, disappeared, max_disappeared, max_distance,
          tpc, updates, detections, matches, unmatched, tracked_before,
          returned

tvars == <<next_object_id, objects, disappeared, max_disappeared, max_distance,
           tpc, updates, detections, matches, unmatched, tracked_before,
           returned>>

\* A caller of LicensePlateRecognizer.verify_authorized_plate, on its own:
\* the authorized-plates file, the text looked up and the answer.
VARIABLES lookup_pc, lookup_store, lookup_text, lookup_result

lvars == <<lookup_pc, lookup_store, lookup_text, lookup_result>>

\* SimpleTollSystem (interactive_toll_system.py), one run of run_toll_booth:
\* where the run is, self.driver_safe, the counters of the face check and of
\* the plate scan, the plate the scan holds, the authorized-plates file, the
\* steps the run has started and the screen it ended with.
VARIABLES booth_pc, driver_safe, face_frame_count, eye_closure_count,
          scan_reads, detection_count, detected_plate, booth_store,
          booth_steps, booth_screen

bvars == <<booth_pc, driver_safe, face_frame_count, eye_closure_count,
           scan_reads, detection_count, detected_plate, booth_store,
           booth_steps, booth_screen>>

\* ------------------------------------------------------------------ bounds
\* Frames the camera loop reads before the model stops reading.
MaxFrames == 2
\* Detections the plate recognizer returns for one frame.
MaxPlates == 2
\* Calls of PlateTracker.update the model follows.
MaxUpdates == 3
\* Detections handed to one PlateTracker.update call.
MaxDets == 2
\* Largest max_disappeared a PlateTracker is constructed with.
MaxDisappeared == 1
\* Most calls of PlateTracker.update a caller that writes to the result makes.
MaxCallerUpdates == 2
\* Detections that caller hands to one PlateTracker.update call.
MaxCallerDets == 1
\* Calls of PlateTracker.update that follow one plate: one that registers it
\* and more matches than track_history holds.
MaxHistoryUpdates == 12
\* Characters of a text looked up in the authorized-plates file.
MaxTextLen == 2
\* Lines of the authorized-plates file a lookup reads.
MaxLines == 2
\* Frames the face check of the toll booth reads before its 3 seconds are over.
MaxFaceFrames == 3
\* Frames the plate scan of the toll booth reads.
MaxScanFrames == 3

\* ------------------------------------------------------------------ strings
\* str.upper() on one character.
UpperChar(c) ==
    CASE c = "a" -> "A"
      [] c = "b" -> "B"
      [] OTHER -> c

\* str.upper()
upper(s) == [i \in 1..Len(s) |-> UpperChar(s[i])]

\* Whitespace as str.strip() sees it.
IsSpace(c) == c \in {" ", "\n"}

RECURSIVE lstrip(_)
lstrip(s) == IF s # <<>> /\ IsSpace(Head(s)) THEN lstrip(Tail(s)) ELSE s

RECURSIVE rstrip(_)
rstrip(s) ==
    IF s # <<>> /\ IsSpace(s[Len(s)]) THEN rstrip(SubSeq(s, 1, Len(s) - 1)) ELSE s

\* str.strip()
strip(s) == rstrip(lstrip(s))

\* dict.get(key, default)
Get(d, k, default) == IF k \in DOMAIN d THEN d[k] ELSE default

\* The empty dict {}.
EmptyDict == [k \in {} |-> FALSE]

\* ------------------------------------------------------------------ inputs
\* Texts the plate recognizer reports.
PlateTexts == { <<>>, <<"A", "1">>, <<"B", "2">> }

\* One element of detected_plates.
Detections == [text : PlateTexts]

\* detected_plates: the list detect_and_recognize returns.
PlateLists == UNION { [1..n -> Detections] : n \in 0..MaxPlates }

\* drowsiness_status as detect_drowsiness returns it.
Statuses == [drowsy : BOOLEAN, yawning : BOOLEAN]

\* The outcome of a call: a returned value or a raised exception.
Ret(v) == [raised |-> FALSE, value |-> v]
Raise == [raised |-> TRUE, value |-> <<>>]

\* The authorized-plates file: absent, present but unreadable, or readable
\* with its lines.
StoreAbsent == [exists |-> FALSE, readable |-> FALSE, lines |-> <<>>]
StoreUnreadable == [exists |-> TRUE, readable |-> FALSE, lines |-> <<>>]
StoreFile == [exists |-> TRUE, readable |-> TRUE,
              lines |-> << <<"a", "1", " ", "\n">> >>]
Stores == {StoreAbsent, StoreUnreadable, StoreFile}

\* What the collaborators do during one process_frame call.
Cycles == [plates_out : {Raise} \cup {Ret(p) : p \in PlateLists},
           status_out : {Raise} \cup {Ret(s) : s \in Statuses},
           sink_ok : BOOLEAN]

NoCycle == [plates_out |-> Ret(<<>>), status_out |-> Ret(EmptyDict), sink_ok |-> TRUE]

\* ------------------------------------------------------------------ session
InitSession ==
    [plate_detected |-> FALSE, plate_text |-> <<>>, is_authorized |-> FALSE,
     driver_safe |-> TRUE, violation_count |-> 0, session_start |-> "None"]

\* A reset done in place that leaves the counter as it is.
ResetSession_KeepCount(session) ==
    [plate_detected |-> FALSE, plate_text |-> <<>>, is_authorized |-> FALSE,
     driver_safe |-> TRUE, violation_count |-> session.violation_count,
     session_start |-> "time.time()"]

\* The dict the 'r' key assigns to self.current_session.
ResetSession(session) ==
    [plate_detected |-> FALSE, plate_text |-> <<>>, is_authorized |-> FALSE,
     driver_safe |-> TRUE, violation_count |-> 0, session_start |-> "time.time()"]

NoResults ==
    [license_plates |-> <<>>, drowsiness_status |-> EmptyDict,
     system_decision |-> "PENDING"]

NoBefore ==
    [session |-> InitSession, violation_log |-> <<>>, store |-> StoreAbsent]

\* ------------------------------------------------------------------ lookup
\* A lookup whose except clause answers True.
verify_authorized_plate_FailOpen(st, plate_text) ==
    LET body ==
            IF st.exists
            THEN IF st.readable
                 THEN LET authorized_plates ==
                              { upper(strip(st.lines[i])) : i \in DOMAIN st.lines }
                      IN Ret(upper(plate_text) \in authorized_plates)
                 ELSE Raise
            ELSE Ret(FALSE)
    IN IF body.raised THEN TRUE ELSE body.value

\* A lookup that compares the text with the lines as they are written.
verify_authorized_plate_CaseSensitive(st, plate_text) ==
    LET body ==
            IF st.exists
            THEN IF st.readable
                 THEN LET authorized_plates ==
                              { strip(st.lines[i]) : i \in DOMAIN st.lines }
                      IN Ret(plate_text \in authorized_plates)
                 ELSE Raise
            ELSE Ret(FALSE)
    IN IF body.raised THEN FALSE ELSE body.value

\* A lookup that lets every plate pass when there is no file to check it
\* against.
verify_authorized_plate_AbsentAllows(st, plate_text) ==
    LET body ==
            IF st.exists
            THEN IF st.readable
                 THEN LET authorized_plates ==
                              { upper(strip(st.lines[i])) : i \in DOMAIN st.lines }
                      IN Ret(upper(plate_text) \in authorized_plates)
                 ELSE Raise
            ELSE Ret(TRUE)
    IN IF body.raised THEN FALSE ELSE body.value

\* LicensePlateRecognizer.verify_authorized_plate: the body of its try block
\* raises when the file exists and cannot be read; the except returns False.
verify_authorized_plate(st, plate_text) ==
    LET body ==
            IF st.exists
            THEN IF st.readable
                 THEN LET authorized_plates ==
                              { upper(strip(st.lines[i])) : i \in DOMAIN st.lines }
                      IN Ret(upper(plate_text) \in authorized_plates)
                 ELSE Raise
            ELSE Ret(FALSE)
    IN IF body.raised THEN FALSE ELSE body.value

\* The lines of the file after f.write(text) in append mode: the text goes
\* onto a last line that has no line end, and is a line of its own otherwise.
FileAppend(lines, text) ==
    IF lines # <<>> /\ lines[Len(lines)][Len(lines[Len(lines)])] # "\n"
    THEN [lines EXCEPT ![Len(lines)] = @ \o text]
    ELSE Append(lines, text)

\* LicensePlateRecognizer.add_authorized_plate: the answer and the file it
\* leaves.  The body of its try block raises when the file exists and cannot
\* be read, or when the write fails; the except returns False.
add_authorized_plate(st, plate_text, write_ok) ==
    LET write == IF write_ok
                 THEN Ret([exists |-> TRUE, readable |-> TRUE,
                           lines |-> FileAppend(st.lines,
                                                upper(plate_text) \o <<"\n">>)])
                 ELSE Raise
        body ==
            IF st.exists
            THEN IF st.readable
                 THEN LET existing_plates ==
                              { upper(strip(st.lines[i])) : i \in DOMAIN st.lines }
                      IN IF upper(plate_text) \in existing_plates
                         THEN Ret(st)
                         ELSE write
                 ELSE Raise
            ELSE write
    IN IF body.raised THEN [result |-> FALSE, store |-> st]
       ELSE [result |-> TRUE, store |-> body.value]

\* ------------------------------------------------------------------ audit
\* The plate text "UNKNOWN" that stands for a plate that is not there.
UNKNOWN == <<"U", "N", "K", "N", "O", "W", "N">>

\* log_violation without its try/except: a failed write raises.
log_violation_NoTry(log, violation_type, plate_text, sink_ok) ==
    LET violation_entry == [violation_type |-> violation_type, plate |-> plate_text]
    IN IF sink_ok
       THEN [raised |-> FALSE, entry |-> violation_entry,
             log |-> Append(log, violation_entry)]
       ELSE [raised |-> TRUE, entry |-> violation_entry, log |-> log]

\* DualLayerTollSystem.log_violation: builds violation_entry and appends it to
\* the violation log file; the except swallows a failed write.  'entry' is
\* the violation_entry built, 'log' the file afterwards.
log_violation(log, violation_type, plate_text, sink_ok) ==
    LET violation_entry == [violation_type |-> violation_type, plate |-> plate_text]
        body == IF sink_ok
                THEN [raised |-> FALSE, log |-> Append(log, violation_entry)]
                ELSE [raised |-> TRUE, log |-> log]
    IN IF body.raised
       THEN [raised |-> FALSE, entry |-> violation_entry, log |-> log]
       ELSE [raised |-> FALSE, entry |-> violation_entry, log |-> body.log]

\* ------------------------------------------------------------------ decision
\* make_toll_decision with a parameter choosing its variant:
\*   "any"/"all": the list is authorized when any / every plate is;
\*   "or"/"and":  the driver is unsafe when drowsy or / and yawning;
\*   safety_first: the safety check precedes the authorization check.
decide(plates, drowsiness_status, st, log, sink_ok, quant, conn, safety_first) ==
    LET authorized_plate_found ==
            IF quant = "any"
            THEN \E i \in DOMAIN plates : verify_authorized_plate(st, plates[i].text)
            ELSE \A i \in DOMAIN plates : verify_authorized_plate(st, plates[i].text)
        unsafe ==
            IF conn = "or"
            THEN Get(drowsiness_status, "drowsy", FALSE)
                 \/ Get(drowsiness_status, "yawning", FALSE)
            ELSE Get(drowsiness_status, "drowsy", FALSE)
                 /\ Get(drowsiness_status, "yawning", FALSE)
        denied == LET w == log_violation(log, "UNAUTHORIZED_PLATE",
                                         IF plates # <<>> THEN plates[1].text
                                         ELSE UNKNOWN,
                                         sink_ok)
                  IN [raised |-> w.raised, decision |-> "ACCESS_DENIED",
                      entries |-> <<w.entry>>, log |-> w.log]
        violation == LET w == log_violation(log, "UNSAFE_DRIVER",
                                            plates[1].text, sink_ok)
                     IN [raised |-> w.raised, decision |-> "SAFETY_VIOLATION",
                         entries |-> <<w.entry>>, log |-> w.log]
        granted == [raised |-> FALSE, decision |-> "ACCESS_GRANTED",
                    entries |-> <<>>, log |-> log]
    IN IF plates = <<>>
       THEN [raised |-> FALSE, decision |-> "NO_PLATE_DETECTED",
             entries |-> <<>>, log |-> log]
       ELSE IF safety_first
            THEN IF unsafe THEN violation
                 ELSE IF ~authorized_plate_found THEN denied ELSE granted
            ELSE IF ~authorized_plate_found THEN denied
                 ELSE IF unsafe THEN violation ELSE granted

\* Grants only when every plate of the list is authorized.
make_toll_decision_AllPlates(plates, drowsiness_status, st, log, sink_ok) ==
    decide(plates, drowsiness_status, st, log, sink_ok, "all", "or", FALSE)

\* Takes the driver for unsafe only when drowsy and yawning.
make_toll_decision_And(plates, drowsiness_status, st, log, sink_ok) ==
    decide(plates, drowsiness_status, st, log, sink_ok, "any", "and", FALSE)

\* Checks the driver's safety before the authorization.
make_toll_decision_SafetyFirst(plates, drowsiness_status, st, log, sink_ok) ==
    decide(plates, drowsiness_status, st, log, sink_ok, "any", "or", TRUE)

\* DualLayerTollSystem.make_toll_decision.  'entries' are the violation
\* entries the call handed to log_violation, 'log' the file afterwards.
make_toll_decision(plates, drowsiness_status, st, log, sink_ok) ==
    IF plates = <<>>
    THEN [raised |-> FALSE, decision |-> "NO_PLATE_DETECTED",
          entries |-> <<>>, log |-> log]
    ELSE LET authorized_plate_found ==
                 \E i \in DOMAIN plates : verify_authorized_plate(st, plates[i].text)
         IN IF ~authorized_plate_found
            THEN LET w == log_violation(log, "UNAUTHORIZED_PLATE",
                                        plates[1].text, sink_ok)
                 IN [raised |-> w.raised, decision |-> "ACCESS_DENIED",
                     entries |-> <<w.entry>>, log |-> w.log]
            ELSE IF Get(drowsiness_status, "drowsy", FALSE)
                    \/ Get(drowsiness_status, "yawning", FALSE)
                 THEN LET w == log_violation(log, "UNSAFE_DRIVER",
                                             plates[1].text, sink_ok)
                      IN [raised |-> w.raised, decision |-> "SAFETY_VIOLATION",
                          entries |-> <<w.entry>>, log |-> w.log]
                 ELSE [raised |-> FALSE, decision |-> "ACCESS_GRANTED",
                       entries |-> <<>>, log |-> log]

\* update_session_state that forgets the plate when the frame shows none.
update_session_state_ClearsPlate(session, plates, drowsiness_status, st) ==
    LET s1 == IF plates # <<>>
              THEN [session EXCEPT
                        !.plate_detected = TRUE,
                        !.plate_text = plates[1].text,
                        !.is_authorized = verify_authorized_plate(st, plates[1].text)]
              ELSE [session EXCEPT
                        !.plate_detected = FALSE,
                        !.plate_text = <<>>,
                        !.is_authorized = FALSE]
        s2 == [s1 EXCEPT !.driver_safe =
                  ~(Get(drowsiness_status, "drowsy", FALSE)
                    \/ Get(drowsiness_status, "yawning", FALSE))]
    IN IF ~s2.driver_safe
       THEN [s2 EXCEPT !.violation_count = @ + 1]
       ELSE s2

\* update_session_state that counts the current cycle only: a safe cycle
\* takes the counter back to 0.
update_session_state_CountsCycle(session, plates, drowsiness_status, st) ==
    LET s1 == IF plates # <<>>
              THEN [session EXCEPT
                        !.plate_detected = TRUE,
                        !.plate_text = plates[1].text,
                        !.is_authorized = verify_authorized_plate(st, plates[1].text)]
              ELSE session
        s2 == [s1 EXCEPT !.driver_safe =
                  ~(Get(drowsiness_status, "drowsy", FALSE)
                    \/ Get(drowsiness_status, "yawning", FALSE))]
    IN [s2 EXCEPT !.violation_count = IF s2.driver_safe THEN 0 ELSE 1]

\* DualLayerTollSystem.update_session_state
update_session_state(session, plates, drowsiness_status, st) ==
    LET s1 == IF plates # <<>>
              THEN [session EXCEPT
                        !.plate_detected = TRUE,
                        !.plate_text = plates[1].text,
                        !.is_authorized = verify_authorized_plate(st, plates[1].text)]
              ELSE session
        s2 == [s1 EXCEPT !.driver_safe =
                  ~(Get(drowsiness_status, "drowsy", FALSE)
                    \/ Get(drowsiness_status, "yawning", FALSE))]
    IN IF ~s2.driver_safe
       THEN [s2 EXCEPT !.violation_count = @ + 1]
       ELSE s2

\* process_frame whose try block does not cover the two detector calls: an
\* exception of a detector leaves process_frame.
process_frame_NoCatch(session, log, st, cyc) ==
    IF cyc.plates_out.raised \/ cyc.status_out.raised
    THEN [results |-> [license_plates |-> <<>>, drowsiness_status |-> EmptyDict,
                       system_decision |-> "PENDING"],
          session |-> session, entries |-> <<>>, log |-> log, escaped |-> TRUE]
    ELSE LET plates == cyc.plates_out.value
             drowsiness_status == cyc.status_out.value
             d == make_toll_decision(plates, drowsiness_status, st, log, cyc.sink_ok)
         IN [results |-> [license_plates |-> plates,
                          drowsiness_status |-> drowsiness_status,
                          system_decision |-> IF d.raised THEN "ERROR" ELSE d.decision],
             session |-> IF d.raised THEN session
                         ELSE update_session_state(session, plates,
                                                   drowsiness_status, st),
             entries |-> d.entries, log |-> d.log, escaped |-> FALSE]

\* process_frame that records the detected plates in the session before it
\* asks for the safety status.
process_frame_UpdatesEarly(session, log, st, cyc) ==
    LET error(plates, status, s, e, l) ==
            [results |-> [license_plates |-> plates, drowsiness_status |-> status,
                          system_decision |-> "ERROR"],
             session |-> s, entries |-> e, log |-> l, escaped |-> FALSE]
    IN IF cyc.plates_out.raised
       THEN error(<<>>, EmptyDict, session, <<>>, log)
       ELSE LET plates == cyc.plates_out.value
            IN IF cyc.status_out.raised
               THEN error(plates, EmptyDict,
                          update_session_state(session, plates, EmptyDict, st),
                          <<>>, log)
               ELSE LET drowsiness_status == cyc.status_out.value
                        d == make_toll_decision(plates, drowsiness_status, st,
                                                log, cyc.sink_ok)
                    IN IF d.raised
                       THEN error(plates, drowsiness_status, session,
                                  d.entries, d.log)
                       ELSE [results |->
                                 [license_plates |-> plates,
                                  drowsiness_status |-> drowsiness_status,
                                  system_decision |-> d.decision],
                             session |-> update_session_state(
                                             session, plates, drowsiness_status, st),
                             entries |-> d.entries,
                             log |-> d.log,
                             escaped |-> FALSE]

\* process_frame that denies access once the session has counted a violation.
process_frame_LocksOut(session, log, st, cyc) ==
    LET error(plates, status, s, e, l) ==
            [results |-> [license_plates |-> plates, drowsiness_status |-> status,
                          system_decision |-> "ERROR"],
             session |-> s, entries |-> e, log |-> l, escaped |-> FALSE]
    IN IF cyc.plates_out.raised
       THEN error(<<>>, EmptyDict, session, <<>>, log)
       ELSE LET plates == cyc.plates_out.value
            IN IF cyc.status_out.raised
               THEN error(plates, EmptyDict, session, <<>>, log)
               ELSE LET drowsiness_status == cyc.status_out.value
                        d == make_toll_decision(plates, drowsiness_status, st,
                                                log, cyc.sink_ok)
                    IN IF d.raised
                       THEN error(plates, drowsiness_status, session,
                                  d.entries, d.log)
                       ELSE [results |->
                                 [license_plates |-> plates,
                                  drowsiness_status |-> drowsiness_status,
                                  system_decision |->
                                      IF session.violation_count > 0
                                      THEN "ACCESS_DENIED" ELSE d.decision],
                             session |-> update_session_state(
                                             session, plates, drowsiness_status, st),
                             entries |-> d.entries,
                             log |-> d.log,
                             escaped |-> FALSE]

\* DualLayerTollSystem.process_frame: the statements of its try block in order;
\* an exception raised by any of them is caught and the decision becomes
\* 'ERROR', with what the block had done so far left in place.  Nothing
\* outside the try block raises on a frame cap.read() or cv2.imread() gave,
\* so no exception leaves the call ('escaped').
process_frame(session, log, st, cyc) ==
    LET error(plates, status, s, e, l) ==
            [results |-> [license_plates |-> plates, drowsiness_status |-> status,
                          system_decision |-> "ERROR"],
             session |-> s, entries |-> e, log |-> l, escaped |-> FALSE]
    IN IF cyc.plates_out.raised
       THEN error(<<>>, EmptyDict, session, <<>>, log)
       ELSE LET plates == cyc.plates_out.value
            IN IF cyc.status_out.raised
               THEN error(plates, EmptyDict, session, <<>>, log)
               ELSE LET drowsiness_status == cyc.status_out.value
                        d == make_toll_decision(plates, drowsiness_status, st,
                                                log, cyc.sink_ok)
                    IN IF d.raised
                       THEN error(plates, drowsiness_status, session,
                                  d.entries, d.log)
                       ELSE [results |->
                                 [license_plates |-> plates,
                                  drowsiness_status |-> drowsiness_status,
                                  system_decision |-> d.decision],
                             session |-> update_session_state(
                                             session, plates, drowsiness_status, st),
                             entries |-> d.entries,
                             log |-> d.log,
                             escaped |-> FALSE]

\* ------------------------------------------------------------------ tracker
\* maxlen of the track_history deque.
HistoryMaxLen == 10

\* int(n / 2.0): the half of n, truncated toward zero.
IntHalf(n) == IF n >= 0 THEN n \div 2 ELSE -((-n) \div 2)

\* The centre of a region rounded to the nearest integer, halves upwards.
Centroid_Rounded(bbox) ==
    << (2 * bbox[1] + bbox[3] + 1) \div 2, (2 * bbox[2] + bbox[4] + 1) \div 2 >>

\* PlateTracker.update: (int(x + w / 2.0), int(y + h / 2.0)) of a 'bbox'.
Centroid(bbox) ==
    << IntHalf(2 * bbox[1] + bbox[3]), IntHalf(2 * bbox[2] + bbox[4]) >>

\* append on a deque that has no maxlen.
DequeAppend_Unbounded(q, v, maxlen) == Append(q, v)

\* deque(maxlen=maxlen).append(v): a full deque drops its first item.
DequeAppend(q, v, maxlen) ==
    IF Len(q) >= maxlen THEN Append(Tail(q), v) ELSE Append(q, v)

\* A Python list built by a comprehension: the items in order, each computed
\* once.
list(f) == SubSeq(f, 1, Len(f))

\* The keys of a dict in insertion order.  Ids are handed out in ascending
\* order and a deletion keeps the order of the others, so this is ascending.
RECURSIVE Keys(_)
Keys(S) ==
    IF S = {} THEN <<>>
    ELSE LET m == CHOOSE x \in S : \A y \in S : x <= y
         IN <<m>> \o Keys(S \ {m})

\* Detections a caller hands to the tracker: a region, and a text that may be
\* missing.  The centres are (35,20), (38,24) and (38,25): the second is at
\* distance 5 of the first, the third farther.  'confidence' is what
\* detect_and_recognize puts into each detection, in hundredths; update does
\* not read it.
TrackerDetections ==
    { [bbox |-> <<10, 10, 50, 20>>, text |-> "AB1234", confidence |-> 90],
      [bbox |-> <<13, 14, 50, 21>>, confidence |-> 80],
      [bbox |-> <<13, 15, 51, 20>>, text |-> "XY99", confidence |-> 50] }

DetectionLists == UNION { [1..n -> TrackerDetections] : n \in 0..MaxDets }

\* max_distance values a tracker is constructed with.
MaxDistances == {5}

\* The tracker's dicts and id counter after PlateTracker.__init__.
NewTracker ==
    [objects |-> [i \in {} |-> <<>>], disappeared |-> [i \in {} |-> 0],
     next_object_id |-> 0]

\* PlateTracker.register
register(t, centroid, plate_text) ==
    [objects |-> (t.next_object_id :>
                      [centroid |-> centroid, plate_text |-> plate_text,
                       track_history |-> <<>>, confidence_history |-> <<>>])
                 @@ t.objects,
     disappeared |-> (t.next_object_id :> 0) @@ t.disappeared,
     next_object_id |-> t.next_object_id + 1]

\* deregister that hands the removed entity's id back for the next register.
deregister_ReleasesId(t, object_id) ==
    [objects |-> [i \in DOMAIN t.objects \ {object_id} |-> t.objects[i]],
     disappeared |-> [i \in DOMAIN t.disappeared \ {object_id} |-> t.disappeared[i]],
     next_object_id |-> object_id]

\* PlateTracker.deregister
deregister(t, object_id) ==
    [objects |-> [i \in DOMAIN t.objects \ {object_id} |-> t.objects[i]],
     disappeared |-> [i \in DOMAIN t.disappeared \ {object_id} |-> t.disappeared[i]],
     next_object_id |-> t.next_object_id]

\* One pass of the loop over an empty detection list that removes an entity
\* at the threshold already.
age_AtThreshold(t, object_id, maxd) ==
    LET t1 == [t EXCEPT !.disappeared[object_id] = @ + 1]
    IN IF t1.disappeared[object_id] >= maxd THEN deregister(t1, object_id) ELSE t1

\* One pass of the loop over an empty detection list that counts and never
\* removes.
age_NeverRemoves(t, object_id, maxd) ==
    [t EXCEPT !.disappeared[object_id] = @ + 1]

\* One pass of the loop over an empty detection list that leaves the counter
\* as it is.
age_NoIncrement(t, object_id, maxd) ==
    IF t.disappeared[object_id] > maxd THEN deregister(t, object_id) ELSE t

\* PlateTracker.update, empty detection list: one pass of the loop over
\* list(self.disappeared.keys()).
age(t, object_id, maxd) ==
    LET t1 == [t EXCEPT !.disappeared[object_id] = @ + 1]
    IN IF t1.disappeared[object_id] > maxd THEN deregister(t1, object_id) ELSE t1

\* The square of the Euclidean distance np.linalg.norm computes.
Dist2(a, b) == (a[1] - b[1]) * (a[1] - b[1]) + (a[2] - b[2]) * (a[2] - b[2])

\* D > self.max_distance, on the squares.
TooFar(d2, maxdist) == maxdist < 0 \/ d2 > maxdist * maxdist

\* D.min(axis=1)[row], squared.
RowMin(D, row) ==
    CHOOSE m \in {D[row][c] : c \in DOMAIN D[row]} :
        \A c \in DOMAIN D[row] : m <= D[row][c]

\* D.argmin(axis=1)[row]: the first column holding the row's minimum.
ArgMin(D, row) ==
    CHOOSE c \in DOMAIN D[row] :
        /\ D[row][c] = RowMin(D, row)
        /\ \A c2 \in DOMAIN D[row] : D[row][c2] = RowMin(D, row) => c <= c2

\* The rows in any order: no sort by the rows' minima.
ArgSorts_Unsorted(D) ==
    LET n == Len(D)
    IN { p \in [1..n -> 1..n] : \A i, j \in 1..n : i # j => p[i] # p[j] }

\* D.min(axis=1).argsort(): the rows by ascending minimum; numpy's default
\* sort is not stable, so rows with equal minima come in any order.
ArgSorts(D) ==
    LET n == Len(D)
        mins == list([r \in 1..n |-> RowMin(D, r)])
    IN { p \in [1..n -> 1..n] :
           /\ \A i, j \in 1..n : i # j => p[i] # p[j]
           /\ \A i, j \in 1..n : i < j => mins[p[i]] <= mins[p[j]] }

\* The state the assignment loop starts in.
LoopStart(t) ==
    [t |-> t, used_row_indices |-> {}, used_col_indices |-> {}, matches |-> <<>>]

\* A commit that takes the detection's text also when it is empty.
commit_Overwrites(st, row, col, ctx) ==
    LET object_id == ctx.object_ids[row]
        o1 == [st.t.objects[object_id] EXCEPT
                  !.centroid = ctx.input_centroids[col],
                  !.track_history =
                      DequeAppend(@, ctx.input_centroids[col], HistoryMaxLen),
                  !.plate_text = ctx.plate_texts[col]]
    IN [t |-> [st.t EXCEPT !.objects[object_id] = o1,
                           !.disappeared[object_id] = 0],
        used_row_indices |-> st.used_row_indices \cup {row},
        used_col_indices |-> st.used_col_indices \cup {col},
        matches |-> Append(st.matches,
                           [row |-> row, col |-> col, object_id |-> object_id])]

\* What the assignment loop does to commit the pair (row, col).
commit(st, row, col, ctx) ==
    LET object_id == ctx.object_ids[row]
        o1 == [st.t.objects[object_id] EXCEPT
                  !.centroid = ctx.input_centroids[col],
                  !.track_history =
                      DequeAppend(@, ctx.input_centroids[col], HistoryMaxLen)]
        o2 == IF ctx.plate_texts[col] # ""
              THEN [o1 EXCEPT !.plate_text = ctx.plate_texts[col]]
              ELSE o1
    IN [t |-> [st.t EXCEPT !.objects[object_id] = o2,
                           !.disappeared[object_id] = 0],
        used_row_indices |-> st.used_row_indices \cup {row},
        used_col_indices |-> st.used_col_indices \cup {col},
        matches |-> Append(st.matches,
                           [row |-> row, col |-> col, object_id |-> object_id])]

\* One pass of the assignment loop without the test on used_col_indices.
assign_NoUsedCols(st, pair, ctx) ==
    IF pair[1] \in st.used_row_indices THEN st
    ELSE IF TooFar(ctx.D[pair[1]][pair[2]], ctx.max_distance) THEN st
    ELSE commit(st, pair[1], pair[2], ctx)

\* One pass of the assignment loop without the test on max_distance.
assign_AnyDistance(st, pair, ctx) ==
    IF pair[1] \in st.used_row_indices \/ pair[2] \in st.used_col_indices THEN st
    ELSE commit(st, pair[1], pair[2], ctx)

\* One pass of the assignment loop that registers a detection too far from
\* its entity as a new entity.
assign_RegistersFar(st, pair, ctx) ==
    IF pair[1] \in st.used_row_indices \/ pair[2] \in st.used_col_indices THEN st
    ELSE IF TooFar(ctx.D[pair[1]][pair[2]], ctx.max_distance)
    THEN [st EXCEPT !.t = register(st.t, ctx.input_centroids[pair[2]],
                                   ctx.plate_texts[pair[2]])]
    ELSE commit(st, pair[1], pair[2], ctx)

\* PlateTracker.update: one pass of the loop over zip(rows, cols).  'matches'
\* lists the pairs the loop committed, in the order it committed them.
assign(st, pair, ctx) ==
    IF pair[1] \in st.used_row_indices \/ pair[2] \in st.used_col_indices THEN st
    ELSE IF TooFar(ctx.D[pair[1]][pair[2]], ctx.max_distance) THEN st
    ELSE commit(st, pair[1], pair[2], ctx)

\* The centroids PlateTracker.update computes from the detections.
InputCentroids(dets) == list([i \in 1..Len(dets) |-> Centroid(dets[i].bbox)])

\* The texts PlateTracker.update takes from the detections.
PlateTextsOf(dets) == list([i \in 1..Len(dets) |-> Get(dets[i], "text", "")])

\* The matrix D of PlateTracker.update, squared: one row per entity in key
\* order, one column per detection.
DistanceMatrix(t, dets) ==
    LET object_ids == Keys(DOMAIN t.objects)
        input_centroids == InputCentroids(dets)
    IN list([r \in 1..Len(object_ids) |->
               list([c \in 1..Len(dets) |->
                       Dist2(t.objects[object_ids[r]].centroid,
                             input_centroids[c])])])

\* The orders 'rows' can have in an update call; <<>> where the call does not
\* compute it.
RowOrders(t, dets) ==
    IF Len(dets) = 0 \/ DOMAIN t.objects = {} THEN { <<>> }
    ELSE ArgSorts(DistanceMatrix(t, dets))

\* PlateTracker.update.  'rows' is the outcome of the argsort.
update(t, dets, maxd, maxdist, rows) ==
    IF Len(dets) = 0
    THEN LET keys == Keys(DOMAIN t.disappeared)
             loop[k \in 0..Len(keys)] ==
                 IF k = 0 THEN t ELSE age(loop[k - 1], keys[k], maxd)
         IN [t |-> loop[Len(keys)], matches |-> <<>>]
    ELSE LET input_centroids == InputCentroids(dets)
             plate_texts == PlateTextsOf(dets)
         IN IF DOMAIN t.objects = {}
            THEN LET loop[i \in 0..Len(input_centroids)] ==
                         IF i = 0 THEN t
                         ELSE register(loop[i - 1], input_centroids[i], plate_texts[i])
                 IN [t |-> loop[Len(input_centroids)], matches |-> <<>>]
            ELSE LET D == DistanceMatrix(t, dets)
                     pairs == list([i \in 1..Len(rows) |->
                                       <<rows[i], ArgMin(D, rows[i])>>])
                     ctx == [D |-> D, object_ids |-> Keys(DOMAIN t.objects),
                             input_centroids |-> input_centroids,
                             plate_texts |-> plate_texts,
                             max_distance |-> maxdist]
                     loop[k \in 0..Len(pairs)] ==
                         IF k = 0 THEN LoopStart(t)
                         ELSE assign(loop[k - 1], pairs[k], ctx)
                 IN [t |-> loop[Len(pairs)].t, matches |-> loop[Len(pairs)].matches]

\* The tracker's dicts and id counter as one record.
Tracker ==
    [objects |-> objects, disappeared |-> disappeared,
     next_object_id |-> next_object_id]

\* The caller holds no mapping returned by the tracker.
NoMapping == [i \in {} |-> 0]

\* PlateTracker.get_tracked_objects: a new dict with the tracker's keys, whose
\* values are the tracker's own entity dicts.  A value is given as the key
\* under which the tracker holds that dict.
get_tracked_objects(t) == [obj_id \in DOMAIN t.objects |-> obj_id]

\* detected_plate = None
None == [k \in {} |-> <<>>]

\* No toll booth runs.
BoothIdle ==
    /\ booth_pc = "none"
    /\ driver_safe = TRUE
    /\ face_frame_count = 0
    /\ eye_closure_count = 0
    /\ scan_reads = 0
    /\ detection_count = 0
    /\ detected_plate = None
    /\ booth_store = StoreAbsent
    /\ booth_steps = <<>>
    /\ booth_screen = "none"

\* No lookup is under way.
LookupIdle ==
    /\ lookup_pc = "none"
    /\ lookup_store = StoreAbsent
    /\ lookup_text = <<>>
    /\ lookup_result = FALSE

\* No update call is under way.
NoCall == [t |-> NewTracker, unmatched |-> [i \in {} |-> 0]]

\* The tracker where nothing constructs one.
TrackerIdle ==
    /\ next_object_id = 0
    /\ objects = NewTracker.objects
    /\ disappeared = NewTracker.disappeared
    /\ max_disappeared = 0
    /\ max_distance = 0
    /\ tpc = "none"
    /\ updates = 0
    /\ detections = <<>>
    /\ matches = <<>>
    /\ unmatched = NoCall.unmatched
    /\ tracked_before = NoCall
    /\ returned = NoMapping

\* ------------------------------------------------------------------ camera loop
\* The state after DualLayerTollSystem.__init__, before the first frame.
Init ==
    /\ pc = "loop"
    /\ frame_count = 0
    /\ current_session = InitSession
    /\ violation_log = <<>>
    /\ store \in Stores
    /\ cycle = NoCycle
    /\ results = NoResults
    /\ entries = <<>>
    /\ before = NoBefore
    /\ feed_error = FALSE
    /\ TrackerIdle
    /\ LookupIdle
    /\ BoothIdle

\* run_camera_feed: cap.read() returns a frame and process_frame handles it.
\* The authorized-plates file may have been changed since the last frame.
\* 'before' keeps the session, the violation log and the store the cycle
\* started from; 'entries' the violation entries the cycle built.
ProcessFrame ==
    /\ pc = "loop"
    /\ frame_count < MaxFrames
    /\ \E cyc \in Cycles, st \in Stores :
          LET r == process_frame(current_session, violation_log, st, cyc)
          IN /\ store' = st
             /\ cycle' = cyc
             /\ before' = [session |-> current_session,
                           violation_log |-> violation_log, store |-> store]
             /\ results' = r.results
             /\ current_session' = r.session
             /\ entries' = r.entries
             /\ violation_log' = r.log
             /\ feed_error' = r.escaped
             /\ pc' = IF r.escaped THEN "done" ELSE "key"
    /\ frame_count' = frame_count + 1
    /\ UNCHANGED tvars
    /\ UNCHANGED lvars
    /\ UNCHANGED bvars

\* run_camera_feed: cap.read() fails and the loop breaks.
ReadFail ==
    /\ pc = "loop"
    /\ pc' = "done"
    /\ UNCHANGED <<frame_count, current_session, violation_log, store,
                   cycle, results, entries, before, feed_error>>
    /\ UNCHANGED tvars
    /\ UNCHANGED lvars
    /\ UNCHANGED bvars

\* run_camera_feed: the key controls after a frame was shown: 'q' leaves the
\* loop, 'r' resets the session, 's' saves the frame to a file, any other key
\* (or none) goes on.  results and the frame are not used again after them.
HandleKey ==
    /\ pc = "key"
    /\ \E key \in {"q", "r", "s", "other"} :
          /\ pc' = IF key = "q" THEN "done" ELSE "loop"
          /\ current_session' =
                 IF key = "r" THEN ResetSession(current_session) ELSE current_session
    /\ cycle' = NoCycle
    /\ results' = NoResults
    /\ entries' = <<>>
    /\ before' = NoBefore
    /\ UNCHANGED <<frame_count, violation_log, store, feed_error>>
    /\ UNCHANGED tvars
    /\ UNCHANGED lvars
    /\ UNCHANGED bvars

Next == ProcessFrame \/ ReadFail \/ HandleKey

Spec == Init /\ [][Next]_<<vars, tvars, lvars, bvars>>

\* ------------------------------------------------------------------ tracker calls
\* The toll system where nothing runs it.
TollIdle ==
    /\ pc = "none"
    /\ frame_count = 0
    /\ current_session = InitSession
    /\ violation_log = <<>>
    /\ store = StoreAbsent
    /\ cycle = NoCycle
    /\ results = NoResults
    /\ entries = <<>>
    /\ before = NoBefore
    /\ feed_error = FALSE

\* The state after PlateTracker(max_disappeared, max_distance).
TrackerInit ==
    /\ TollIdle
    /\ LookupIdle
    /\ BoothIdle
    /\ next_object_id = NewTracker.next_object_id
    /\ objects = NewTracker.objects
    /\ disappeared = NewTracker.disappeared
    /\ max_disappeared \in 0..MaxDisappeared
    /\ max_distance \in MaxDistances
    /\ tpc = "idle"
    /\ updates = 0
    /\ detections = <<>>
    /\ matches = <<>>
    /\ unmatched = NoCall.unmatched
    /\ tracked_before = NoCall
    /\ returned = NoMapping

\* A caller calls PlateTracker.update(detections) with one of the given
\* lists, while fewer than 'bound' calls were made.  'tracked_before' keeps
\* the tracker the call started from, 'matches' the pairs the call committed,
\* 'returned' the mapping the call returns, and 'unmatched' counts, for each
\* entity, the update calls in a row that neither registered nor matched it.
UpdateWith(lists, bound) ==
    /\ tpc = "idle"
    /\ updates < bound
    /\ \E dets \in lists :
          \E rows \in RowOrders(Tracker, dets) :
             \E r \in {update(Tracker, dets, max_disappeared, max_distance, rows)} :
                /\ objects' = r.t.objects
                /\ disappeared' = r.t.disappeared
                /\ next_object_id' = r.t.next_object_id
                /\ matches' = r.matches
                /\ detections' = dets
                /\ returned' = get_tracked_objects(r.t)
                /\ unmatched' =
                       [i \in DOMAIN r.t.objects |->
                           IF \/ i \notin DOMAIN objects
                              \/ \E k \in DOMAIN r.matches : r.matches[k].object_id = i
                           THEN 0 ELSE unmatched[i] + 1]
    /\ tracked_before' = [t |-> Tracker, unmatched |-> unmatched]
    /\ updates' = updates + 1
    /\ tpc' = "returned"
    /\ UNCHANGED <<max_disappeared, max_distance>>
    /\ UNCHANGED vars
    /\ UNCHANGED lvars
    /\ UNCHANGED bvars

\* A caller calls PlateTracker.update(detections).
Update == UpdateWith(DetectionLists, MaxUpdates)

\* The caller is done with the tracked objects update returned and goes on.
UpdateReturn ==
    /\ tpc = "returned"
    /\ tpc' = "idle"
    /\ detections' = <<>>
    /\ matches' = <<>>
    /\ tracked_before' = NoCall
    /\ returned' = NoMapping
    /\ UNCHANGED <<next_object_id, objects, disappeared, max_disappeared,
                   max_distance, updates, unmatched>>
    /\ UNCHANGED vars
    /\ UNCHANGED lvars
    /\ UNCHANGED bvars

TrackerNext == Update \/ UpdateReturn

TrackerSpec == TrackerInit /\ [][TrackerNext]_<<vars, tvars, lvars, bvars>>

\* ------------------------------------------------------------------ tracker caller
\* The caller changes the mapping update returned: it deletes a key.  The
\* mapping is a dict of its own, so the tracker's dicts stay as they are.
CallerEditsMapping ==
    /\ tpc = "returned"
    /\ \E obj_id \in DOMAIN returned :
          returned' = [i \in DOMAIN returned \ {obj_id} |-> returned[i]]
    /\ UNCHANGED <<next_object_id, objects, disappeared, max_disappeared,
                   max_distance, tpc, updates, detections, matches, unmatched,
                   tracked_before>>
    /\ UNCHANGED vars
    /\ UNCHANGED lvars
    /\ UNCHANGED bvars

\* The caller writes to an entity dict it reached through the returned
\* mapping: it sets 'plate_text' or clears 'track_history'.  The dict is the
\* one the tracker holds under that key, as long as the tracker holds it.
CallerWritesEntity ==
    /\ tpc = "returned"
    /\ \E obj_id \in DOMAIN returned :
          /\ returned[obj_id] \in DOMAIN objects
          /\ \/ /\ objects[returned[obj_id]].plate_text # "CALLER"
                /\ objects' = [objects EXCEPT ![returned[obj_id]].plate_text = "CALLER"]
             \/ /\ objects[returned[obj_id]].track_history # <<>>
                /\ objects' = [objects EXCEPT ![returned[obj_id]].track_history = <<>>]
    /\ UNCHANGED <<next_object_id, disappeared, max_disappeared, max_distance,
                   tpc, updates, detections, matches, unmatched, tracked_before,
                   returned>>
    /\ UNCHANGED vars
    /\ UNCHANGED lvars
    /\ UNCHANGED bvars

\* The caller's calls of PlateTracker.update(detections).
CallerUpdate ==
    UpdateWith({dets \in DetectionLists : Len(dets) <= MaxCallerDets},
               MaxCallerUpdates)

CallerNext ==
    CallerUpdate \/ UpdateReturn \/ CallerEditsMapping \/ CallerWritesEntity

\* The tracker with a caller that writes to what update returned.
CallerSpec == TrackerInit /\ [][CallerNext]_<<vars, tvars, lvars, bvars>>

\* ------------------------------------------------------------------ a plate that stays
\* Detections of a plate that stays in reach of its tracked entity: two of
\* TrackerDetections, whose centres (38,24) and (38,25) are 1 apart.
HistoryDetections ==
    { [bbox |-> <<13, 14, 50, 21>>, confidence |-> 80],
      [bbox |-> <<13, 15, 51, 20>>, text |-> "XY99", confidence |-> 50] }

\* The caller hands update one detection of that plate, call after call.
HistoryUpdate ==
    UpdateWith({ <<d>> : d \in HistoryDetections }, MaxHistoryUpdates)

HistoryNext == HistoryUpdate \/ UpdateReturn

\* The tracker following one plate for longer than its history holds.
HistorySpec == TrackerInit /\ [][HistoryNext]_<<vars, tvars, lvars, bvars>>

\* ------------------------------------------------------------------ lookup calls
\* Characters of the texts looked up.
LookupChars == {"a", "A", "1", " "}

\* plate_text as a caller passes it to verify_authorized_plate.
LookupTexts == UNION { [1..n -> LookupChars] : n \in 0..MaxTextLen }

\* Lines of the authorized-plates file as f.readlines() gives them: with
\* their line end, but for a last line that has none.
StoreLines ==
    { <<"a", "1", " ", "\n">>, <<"A", "1", "\n">>, <<" ", "a", "\n">>,
      <<"\n">>, <<"1", "a">> }

\* The authorized-plates file a lookup finds: only its last line can be
\* without a line end.
LookupStores ==
    {StoreAbsent, StoreUnreadable} \cup
    { [exists |-> TRUE, readable |-> TRUE, lines |-> l] :
          l \in { f \in UNION { [1..n -> StoreLines] : n \in 0..MaxLines } :
                     \A i \in 1..(Len(f) - 1) : f[i][Len(f[i])] = "\n" } }

\* A caller is about to look a text up in some authorized-plates file.
LookupInit ==
    /\ TollIdle
    /\ TrackerIdle
    /\ BoothIdle
    /\ lookup_pc = "call"
    /\ lookup_store \in LookupStores
    /\ lookup_text \in LookupTexts
    /\ lookup_result = FALSE

\* The caller calls verify_authorized_plate(plate_text).
Lookup ==
    /\ lookup_pc = "call"
    /\ lookup_result' = verify_authorized_plate(lookup_store, lookup_text)
    /\ lookup_pc' = "done"
    /\ UNCHANGED <<lookup_store, lookup_text>>
    /\ UNCHANGED vars
    /\ UNCHANGED tvars
    /\ UNCHANGED bvars

\* The caller calls add_authorized_plate(plate_text) instead; the write to
\* the file succeeds or fails.
AddPlate ==
    /\ lookup_pc = "call"
    /\ \E write_ok \in BOOLEAN :
          \E r \in {add_authorized_plate(lookup_store, lookup_text, write_ok)} :
             /\ lookup_result' = r.result
             /\ lookup_store' = r.store
             /\ lookup_pc' = IF r.result THEN "added" ELSE "not added"
    /\ UNCHANGED lookup_text
    /\ UNCHANGED vars
    /\ UNCHANGED tvars
    /\ UNCHANGED bvars

\* After add_authorized_plate(plate_text) returned True, the caller calls
\* verify_authorized_plate(plate_text).
LookupAdded ==
    /\ lookup_pc = "added"
    /\ lookup_result' = verify_authorized_plate(lookup_store, lookup_text)
    /\ lookup_pc' = "verified"
    /\ UNCHANGED <<lookup_store, lookup_text>>
    /\ UNCHANGED vars
    /\ UNCHANGED tvars
    /\ UNCHANGED bvars

LookupNext == Lookup \/ AddPlate \/ LookupAdded

LookupSpec == LookupInit /\ [][LookupNext]_<<vars, tvars, lvars, bvars>>

\* ------------------------------------------------------------------ toll booth
\* required_detections of step2_plate_scan.
required_detections == 2

\* A run that scans the plate whatever the face check found.
scan_allowed_Always(safe) == TRUE

\* run_toll_booth: the test 'if self.driver_safe' after step1_face_check.
scan_allowed(safe) == safe

\* step1_face_check: drowsiness_ratio > 0.3, the ratio being
\* eye_closure_count / max(frame_count, 1).
drowsy_ratio(closures, frames) ==
    10 * closures > 3 * (IF frames > 1 THEN frames ELSE 1)

\* step3_final_decision: the screen it shows.
step3_final_decision(st, plate, safe) ==
    LET plate_text == plate.text
        is_authorized == verify_authorized_plate(st, plate_text)
    IN IF is_authorized /\ safe THEN "ACCESS GRANTED"
       ELSE IF ~is_authorized THEN "UNAUTHORIZED PLATE"
       ELSE "UNSAFE DRIVER"

\* A run of run_toll_booth is about to start.
BoothInit ==
    /\ TollIdle
    /\ TrackerIdle
    /\ LookupIdle
    /\ booth_pc = "start"
    /\ driver_safe = TRUE
    /\ face_frame_count = 0
    /\ eye_closure_count = 0
    /\ scan_reads = 0
    /\ detection_count = 0
    /\ detected_plate = None
    /\ booth_store \in Stores
    /\ booth_steps = <<>>
    /\ booth_screen = "none"

\* run_toll_booth up to the call of step1_face_check: it returns at once
\* when the camera cannot be opened.
OpenCamera ==
    /\ booth_pc = "start"
    /\ \E opened \in BOOLEAN :
          IF opened
          THEN /\ booth_pc' = "face"
               /\ booth_steps' = Append(booth_steps, "face_check")
               /\ UNCHANGED booth_screen
          ELSE /\ booth_pc' = "done"
               /\ booth_screen' = "no camera"
               /\ UNCHANGED booth_steps
    /\ UNCHANGED <<driver_safe, face_frame_count, eye_closure_count, scan_reads,
                   detection_count, detected_plate, booth_store>>
    /\ UNCHANGED vars
    /\ UNCHANGED tvars
    /\ UNCHANGED lvars

\* What step1_face_check does after its loop, and run_toll_booth after it:
\* a drowsy driver gets the violation screen and the run ends, an alert one
\* goes on to step2_plate_scan.
FaceResult(closures, frames) ==
    IF drowsy_ratio(closures, frames)
    THEN /\ driver_safe' = FALSE
         /\ booth_screen' = "DROWSY DRIVER DETECTED"
         /\ IF scan_allowed(FALSE)
            THEN booth_pc' = "scan" /\ booth_steps' = Append(booth_steps, "plate_scan")
            ELSE booth_pc' = "done" /\ UNCHANGED booth_steps
    ELSE /\ driver_safe' = TRUE
         /\ UNCHANGED booth_screen
         /\ IF scan_allowed(TRUE)
            THEN booth_pc' = "scan" /\ booth_steps' = Append(booth_steps, "plate_scan")
            ELSE booth_pc' = "done" /\ UNCHANGED booth_steps

\* One pass of the loop of step1_face_check, with what follows the loop when
\* the pass ends it.  A failed read ends the loop; when it is the first read,
\* 'elapsed' was never assigned and printing it raises, which ends the run.
\* 'q' raises KeyboardInterrupt.  The 3 seconds are over at some pass.
FaceFrame ==
    /\ booth_pc = "face"
    /\ \E ret \in BOOLEAN, closure \in BOOLEAN, q \in BOOLEAN, time_up \in BOOLEAN :
          IF ~ret
          THEN /\ UNCHANGED <<face_frame_count, eye_closure_count>>
               /\ IF face_frame_count = 0
                  THEN /\ booth_pc' = "done"
                       /\ booth_screen' = "exception"
                       /\ UNCHANGED <<driver_safe, booth_steps>>
                  ELSE FaceResult(eye_closure_count, face_frame_count)
          ELSE /\ face_frame_count' = face_frame_count + 1
               /\ eye_closure_count' = eye_closure_count + (IF closure THEN 1 ELSE 0)
               /\ IF q
                  THEN /\ booth_pc' = "done"
                       /\ booth_screen' = "stopped"
                       /\ UNCHANGED <<driver_safe, booth_steps>>
                  ELSE IF time_up \/ face_frame_count' >= MaxFaceFrames
                  THEN FaceResult(eye_closure_count', face_frame_count')
                  ELSE UNCHANGED <<booth_pc, booth_screen, driver_safe, booth_steps>>
    /\ UNCHANGED <<scan_reads, detection_count, detected_plate, booth_store>>
    /\ UNCHANGED vars
    /\ UNCHANGED tvars
    /\ UNCHANGED lvars

\* What step2_plate_scan does after its loop: step3_final_decision when it
\* holds a plate, a message otherwise.
ScanResult(plate) ==
    /\ booth_pc' = "done"
    /\ IF plate # None
       THEN /\ booth_steps' = Append(booth_steps, "final_decision")
            /\ booth_screen' = step3_final_decision(booth_store, plate, driver_safe)
       ELSE /\ booth_screen' = "no plate"
            /\ UNCHANGED booth_steps

\* One pass of the loop of step2_plate_scan, with what follows the loop when
\* the pass ends it: a failed read, or the count reaching
\* required_detections.
ScanFrame ==
    /\ booth_pc = "scan"
    /\ detection_count < required_detections
    /\ scan_reads < MaxScanFrames
    /\ \E ret \in BOOLEAN, plates \in PlateLists, q \in BOOLEAN :
          IF ~ret
          THEN /\ UNCHANGED <<scan_reads, detection_count, detected_plate>>
               /\ ScanResult(detected_plate)
          ELSE /\ scan_reads' = scan_reads + 1
               /\ detected_plate' = IF plates # <<>> THEN plates[1] ELSE detected_plate
               /\ detection_count' =
                      IF plates # <<>> THEN detection_count + 1 ELSE detection_count
               /\ IF q
                  THEN /\ booth_pc' = "done"
                       /\ booth_screen' = "stopped"
                       /\ UNCHANGED booth_steps
                  ELSE IF detection_count' >= required_detections
                  THEN ScanResult(detected_plate')
                  ELSE UNCHANGED <<booth_pc, booth_screen, booth_steps>>
    /\ UNCHANGED <<driver_safe, face_frame_count, eye_closure_count, booth_store>>
    /\ UNCHANGED vars
    /\ UNCHANGED tvars
    /\ UNCHANGED lvars

BoothNext == OpenCamera \/ FaceFrame \/ ScanFrame

BoothSpec == BoothInit /\ [][BoothNext]_<<vars, tvars, lvars, bvars>>

\* ------------------------------------------------------------------ claims
\* A cycle in which make_toll_decision and update_session_state ran: both
\* detectors returned.  The state is the one process_frame returned in;
\* 'before' holds the session, the violation log and the store the cycle started from.
Evaluated == pc = "key" /\ ~cycle.plates_out.raised /\ ~cycle.status_out.raised

Plates == results.license_plates
Status == results.drowsiness_status
Decision == results.system_decision

\* The lookup's answer for the first detection's text.
FirstAuthorized == verify_authorized_plate(store, Plates[1].text)
\* No detection of the cycle has an authorized text.
NoneAuthorized == \A i \in DOMAIN Plates : ~verify_authorized_plate(store, Plates[i].text)
Safe == ~Status.drowsy /\ ~Status.yawning

\* No violation entry was built and the violation log is as it was.
NothingAppended == entries = <<>> /\ violation_log = before.violation_log
\* Exactly one violation entry was built, of this kind, for the first plate;
\* the violation log holds it at its end unless the write failed.
AppendedOne(kind) ==
    LET e == [violation_type |-> kind, plate |-> Plates[1].text]
    IN /\ entries = <<e>>
       /\ violation_log = IF cycle.sink_ok THEN Append(before.violation_log, e)
                          ELSE before.violation_log

\* C1: a cycle with a non-empty detection list, an authorized identifier and
\* a safety status that is neither drowsy nor yawning returns ACCESS_GRANTED,
\* appends no violation record, leaves violation_count as it was and sets
\* driver_safe.
C1_GrantedWhenAuthorizedAndSafe ==
    (Evaluated /\ Plates # <<>> /\ FirstAuthorized /\ Safe)
        => /\ Decision = "ACCESS_GRANTED"
           /\ NothingAppended
           /\ current_session.violation_count = before.session.violation_count
           /\ current_session.driver_safe = TRUE

\* C1 happens: a grant in a session that had counted a violation and held
\* driver_safe = False.
C1_Witness ==
    /\ Evaluated /\ Plates # <<>> /\ FirstAuthorized /\ Safe
    /\ Len(Plates) = 2 /\ ~verify_authorized_plate(store, Plates[2].text)
    /\ Decision = "ACCESS_GRANTED"
    /\ before.session.violation_count = 1
    /\ ~before.session.driver_safe
    /\ current_session.violation_count = 1

\* C2: a cycle with a non-empty detection list whose (first) identifier is
\* not authorized returns ACCESS_DENIED and appends exactly one violation
\* record, of kind UNAUTHORIZED_PLATE, whatever the safety status is.
C2_DeniedWhenFirstUnauthorized ==
    (Evaluated /\ Plates # <<>> /\ ~FirstAuthorized)
        => /\ Decision = "ACCESS_DENIED"
           /\ AppendedOne("UNAUTHORIZED_PLATE")

\* C3: a cycle with an authorized identifier and a status that is drowsy or
\* yawning returns SAFETY_VIOLATION, appends exactly one UNSAFE_DRIVER record,
\* adds exactly 1 to violation_count and clears driver_safe.
C3_SafetyViolationWhenUnsafe ==
    (Evaluated /\ Plates # <<>> /\ FirstAuthorized /\ ~Safe)
        => /\ Decision = "SAFETY_VIOLATION"
           /\ AppendedOne("UNSAFE_DRIVER")
           /\ current_session.violation_count = before.session.violation_count + 1
           /\ current_session.driver_safe = FALSE

\* C3 happens: yawning alone, in a session that already counted a violation.
C3_Witness ==
    /\ Evaluated /\ Plates # <<>> /\ FirstAuthorized
    /\ Status.yawning /\ ~Status.drowsy
    /\ Decision = "SAFETY_VIOLATION"
    /\ before.session.violation_count = 1
    /\ current_session.violation_count = 2
    /\ Len(violation_log) = Len(before.violation_log) + 1

\* C4: a cycle with a non-empty detection list whose identifier is not
\* authorized adds exactly 1 to violation_count and leaves is_authorized
\* false, also when the status is safe.
C4_UnauthorizedCounted ==
    (Evaluated /\ Plates # <<>> /\ ~FirstAuthorized)
        => /\ current_session.violation_count = before.session.violation_count + 1
           /\ current_session.is_authorized = FALSE

\* The cycle process_frame would have made from the same session and audit
\* records with the same detections and the safety status s.
WithStatus(s) ==
    process_frame(before.session, before.violation_log, store,
                  [cycle EXCEPT !.status_out = Ret(s)])

C6_NoPlateKeepsIdentifier ==
    (Evaluated /\ Plates = <<>>)
        => /\ Decision = "NO_PLATE_DETECTED"
           /\ NothingAppended
           /\ current_session.plate_detected = before.session.plate_detected
           /\ current_session.plate_text = before.session.plate_text
           /\ current_session.is_authorized = before.session.is_authorized

\* C6 happens: an empty frame after a frame that showed an authorized plate.
C6_Witness ==
    /\ Evaluated /\ Plates = <<>>
    /\ Decision = "NO_PLATE_DETECTED"
    /\ before.session.plate_detected /\ before.session.is_authorized
    /\ current_session.plate_text = <<"A", "1">>
    /\ current_session.is_authorized

C8_AlwaysOneDecision ==
    /\ feed_error = FALSE
    /\ pc = "key"
          => Decision \in {"NO_PLATE_DETECTED", "ACCESS_DENIED", "SAFETY_VIOLATION",
                           "ACCESS_GRANTED", "ERROR"}
    /\ (pc = "key" /\ (cycle.plates_out.raised \/ cycle.status_out.raised))
          => Decision = "ERROR"
    /\ Evaluated => Decision # "ERROR"
    /\ Decision = "ERROR" => pc = "key"

\* C8 happens: the safety detector raised in the second frame, after the
\* plate detector had returned detections.
C8_Witness ==
    /\ pc = "key" /\ frame_count = 2
    /\ cycle.status_out.raised /\ ~cycle.plates_out.raised
    /\ Plates # <<>>
    /\ Decision = "ERROR"

\* The cycle process_frame would have made from the same session and audit
\* records with the same detector results and a working audit sink.
WithSinkOk ==
    process_frame(before.session, before.violation_log, store,
                  [cycle EXCEPT !.sink_ok = TRUE])

\* C9: when the write of a violation record fails, the cycle returns the same
\* decision and leaves the same session as when the write succeeds, and the
\* failure shows neither as an exception nor as an ERROR decision.
C9_AuditFailureIsHarmless ==
    (Evaluated /\ ~cycle.sink_ok)
        => LET r == WithSinkOk
           IN /\ Decision = r.results.system_decision
              /\ current_session = r.session
              /\ Decision # "ERROR"
              /\ feed_error = FALSE

\* C9 happens: a safety violation whose record could not be written.
C9_Witness ==
    /\ Evaluated /\ ~cycle.sink_ok
    /\ Decision = "SAFETY_VIOLATION"
    /\ violation_log = before.violation_log
    /\ Len(WithSinkOk.log) = Len(violation_log) + 1
    /\ current_session.violation_count = before.session.violation_count + 1

\* C10: a session reset replaces the whole session in one step, between two
\* processing cycles: a step that changes the session is either a processing
\* cycle or the reset at the key handling, and after the reset
\* violation_count is 0, plate_detected false, plate_text empty, is_authorized
\* false and driver_safe true.
C10_ResetIsWholeAndBetweenCycles ==
    [][ current_session' # current_session
          => \/ pc = "loop" /\ pc' \in {"key", "done"}
             \/ /\ pc = "key" /\ pc' = "loop"
                /\ current_session'.violation_count = 0
                /\ current_session'.plate_detected = FALSE
                /\ current_session'.plate_text = <<>>
                /\ current_session'.is_authorized = FALSE
                /\ current_session'.driver_safe = TRUE
                /\ current_session'.session_start = "time.time()" ]_vars

\* C10 happens: a reset session after a cycle that had counted a violation.
C10_Witness ==
    /\ pc = "loop" /\ frame_count > 0
    /\ current_session.session_start = "time.time()"
    /\ current_session.violation_count = 0
    /\ current_session.plate_detected = FALSE
    /\ \E i \in DOMAIN violation_log :
          violation_log[i].violation_type = "UNSAFE_DRIVER"

\* C11: across the processing cycles violation_count never decreases: a
\* processing cycle leaves it as it was or raises it, and a step that lowers
\* it is the explicit session reset at the key handling, which takes it to 0.
C11_ViolationCountNeverDecreases ==
    [][ /\ pc = "loop" =>
             current_session'.violation_count >= current_session.violation_count
        /\ current_session'.violation_count < current_session.violation_count
             => /\ pc = "key" /\ pc' = "loop"
                /\ current_session'.violation_count = 0
                /\ current_session'.session_start = "time.time()" ]_<<vars, tvars>>

\* C11 happens: a cycle with a safe driver ran on a session that had counted
\* a violation, and the count is what it was.
C11_Witness ==
    /\ Evaluated /\ Safe
    /\ before.session.violation_count > 0
    /\ current_session.violation_count = before.session.violation_count

\* C12: the decision of a cycle is a function of the cycle's inputs only (the
\* detection list or the detector's failure, the safety status or its
\* failure, the authorization store): whatever the session and the violation
\* log the cycle started from, the decision is the one the same inputs give
\* on a fresh session.
C12_DecisionDependsOnInputsOnly ==
    pc = "key" =>
        Decision = process_frame(InitSession, <<>>, store, cycle).results.system_decision

\* C12 happens: a cycle granted access on a session that differed from a
\* fresh one in its counter, its plate and its safety flag.
C12_Witness ==
    /\ Evaluated
    /\ before.session.violation_count > 0
    /\ before.session.plate_text # <<>>
    /\ ~before.session.is_authorized
    /\ ~before.session.driver_safe
    /\ Decision = "ACCESS_GRANTED"

\* C13: with several detections in a cycle the first detection's identifier
\* alone decides the authorization outcome: the decision is ACCESS_DENIED
\* exactly when the first detection's text is not authorized.
C13_FirstDetectionDecides ==
    Evaluated /\ Len(Plates) >= 2 =>
        (Decision = "ACCESS_DENIED" <=> ~FirstAuthorized)

\* ------------------------------------------------------------------ tracker claims
\* An update call has returned: 'tracked_before' is the tracker it started
\* from, 'detections' its argument and 'matches' the pairs it committed.
Returned == tpc = "returned"
Before == tracked_before.t
\* The entity was matched by the call.
Matched(i) == \E k \in DOMAIN matches : matches[k].object_id = i
\* The squared distance between an entity's centroid before the call and the
\* centre of the call's detection c.
Away2(i, c) == Dist2(Before.objects[i].centroid, Centroid(detections[c].bbox))
\* The squared distance is within max_distance.
Within(d2) == max_distance >= 0 /\ d2 <= max_distance * max_distance

\* C14: an update call with an empty detection list registers no entity,
\* does not advance next_object_id, and leaves every entity that is still
\* tracked with a frames_missing counter exactly 1 greater than before.
C14_EmptyUpdateAgesEveryEntity ==
    Returned /\ detections = <<>> =>
        /\ DOMAIN objects \subseteq DOMAIN Before.objects
        /\ DOMAIN disappeared = DOMAIN objects
        /\ next_object_id = Before.next_object_id
        /\ \A i \in DOMAIN objects :
              /\ disappeared[i] = Before.disappeared[i] + 1
              /\ objects[i] = Before.objects[i]

\* C14 happens: an empty update on a tracker holding two entities, and both
\* are still tracked afterwards.
C14_Witness ==
    /\ Returned /\ detections = <<>>
    /\ Cardinality(DOMAIN Before.objects) = 2
    /\ DOMAIN objects = DOMAIN Before.objects
    /\ \A i \in DOMAIN objects : disappeared[i] = 1

\* C15: in every update call an entity is removed exactly when its
\* frames_missing counter exceeds max_disappeared in that call: an entity
\* whose counter reaches max_disappeared is still tracked, and one whose
\* counter reaches max_disappeared + 1 is removed by the same call.
C15_RemovedIffCounterExceeds ==
    Returned =>
        /\ \A i \in DOMAIN objects : disappeared[i] <= max_disappeared
        /\ \A i \in DOMAIN Before.objects :
              i \notin DOMAIN objects
                  <=> detections = <<>> /\ Before.disappeared[i] + 1 > max_disappeared
        /\ \A i \in DOMAIN Before.objects \ DOMAIN objects :
              Before.disappeared[i] + 1 = max_disappeared + 1

\* C15 happens: an entity that an earlier call had left tracked with its
\* counter exactly at max_disappeared is removed by this call.
C15_Witness ==
    /\ Returned /\ detections = <<>>
    /\ max_disappeared >= 1
    /\ \E i \in DOMAIN Before.objects :
          /\ Before.disappeared[i] = max_disappeared
          /\ i \notin DOMAIN objects

\* C16: in an update call with a non-empty detection list and at least one
\* entity, every entity left unmatched has its frames_missing counter raised
\* by 1, and is removed by the call if the counter thereby exceeds
\* max_disappeared.
C16_UnmatchedEntityAges ==
    Returned /\ detections # <<>> /\ DOMAIN Before.objects # {} =>
        \A i \in DOMAIN Before.objects :
            ~Matched(i) =>
                IF Before.disappeared[i] + 1 > max_disappeared
                THEN i \notin DOMAIN objects
                ELSE /\ i \in DOMAIN objects
                     /\ disappeared[i] = Before.disappeared[i] + 1

\* C17: no entity stays tracked without being matched: an entity that has
\* gone unmatched for more than max_disappeared update calls in a row, with
\* empty or non-empty detection lists, is no longer tracked.
C17_NoEntityOutlivesItsAbsence ==
    \A i \in DOMAIN objects : unmatched[i] <= max_disappeared

\* C18: within one update call the assignment is one-to-one: no detection is
\* matched to two entities and no entity to two detections.
C18_AssignmentIsOneToOne ==
    Returned =>
        \A k, l \in DOMAIN matches :
            k # l => /\ matches[k].col # matches[l].col
                     /\ matches[k].row # matches[l].row
                     /\ matches[k].object_id # matches[l].object_id

\* C18 happens: two entities had the same detection as their nearest, both
\* within max_distance, and the call matched it to one of them.
C18_Witness ==
    /\ Returned /\ detections # <<>>
    /\ \E i, j \in DOMAIN Before.objects :
          /\ i # j
          /\ Matched(i) /\ ~Matched(j)
          /\ \E c \in DOMAIN detections :
                /\ Within(Away2(i, c)) /\ Within(Away2(j, c))
                /\ \A c2 \in DOMAIN detections :
                      Away2(i, c) <= Away2(i, c2) /\ Away2(j, c) <= Away2(j, c2)
                /\ \E k \in DOMAIN matches :
                      matches[k].object_id = i /\ matches[k].col = c

\* C19: a match is committed only between an entity and a detection whose
\* centroid distance does not exceed max_distance (a pair at distance exactly
\* max_distance may match): an entity's centroid, identifier, track_history
\* and frames_missing are either what they were before the call, or were set
\* from a detection within max_distance of the entity.
C19_NoMatchBeyondMaxDistance ==
    Returned /\ detections # <<>> /\ DOMAIN Before.objects # {} =>
        /\ \A k \in DOMAIN matches :
              Within(Away2(matches[k].object_id, matches[k].col))
        /\ \A i \in DOMAIN Before.objects :
              \/ /\ i \in DOMAIN objects
                 /\ objects[i] = Before.objects[i]
                 /\ disappeared[i] = Before.disappeared[i]
              \/ \E c \in DOMAIN detections :
                    /\ Within(Away2(i, c))
                    /\ objects[i].centroid = Centroid(detections[c].bbox)

\* C19 happens: the call matched an entity with a detection at distance
\* exactly max_distance, and left alone another entity whose nearest
\* detection is farther than max_distance.
C19_Witness ==
    /\ Returned /\ detections # <<>>
    /\ \E k \in DOMAIN matches :
          Away2(matches[k].object_id, matches[k].col) = max_distance * max_distance
    /\ \E i \in DOMAIN Before.objects :
          /\ \A c \in DOMAIN detections : ~Within(Away2(i, c))
          /\ objects[i] = Before.objects[i]

\* C20: an update call on a tracker without entities registers exactly one
\* entity per detection, in input order with consecutive ids, each with the
\* centre (x + w/2, y + h/2) of its region truncated to integers as centroid,
\* the detection's text as identifier and frames_missing 0; the region
\* (10,10,50,20) with text "AB1234" gives centroid (35,20) and identifier
\* "AB1234".
C20_EmptyTrackerRegistersEveryDetection ==
    Returned /\ detections # <<>> /\ DOMAIN Before.objects = {} =>
        /\ DOMAIN objects =
               Before.next_object_id .. (Before.next_object_id + Len(detections) - 1)
        /\ DOMAIN disappeared = DOMAIN objects
        /\ next_object_id = Before.next_object_id + Len(detections)
        /\ \A k \in DOMAIN detections :
              LET o == objects[Before.next_object_id + k - 1]
                  b == detections[k].bbox
              IN /\ 2 * o.centroid[1] <= 2 * b[1] + b[3]
                 /\ 2 * b[1] + b[3] < 2 * o.centroid[1] + 2
                 /\ 2 * o.centroid[2] <= 2 * b[2] + b[4]
                 /\ 2 * b[2] + b[4] < 2 * o.centroid[2] + 2
                 /\ o.plate_text = Get(detections[k], "text", "")
                 /\ o.track_history = <<>>
                 /\ disappeared[Before.next_object_id + k - 1] = 0
                 /\ detections[k] = [bbox |-> <<10, 10, 50, 20>>, text |-> "AB1234", confidence |-> 90]
                       => o.centroid = <<35, 20>> /\ o.plate_text = "AB1234"

\* C20 happens: a tracker that had lost its entities registers two
\* detections, the region (10,10,50,20) with text "AB1234" and one whose
\* centre has a half to truncate.
C20_Witness ==
    /\ Returned /\ DOMAIN Before.objects = {}
    /\ Before.next_object_id > 0
    /\ detections = << [bbox |-> <<10, 10, 50, 20>>, text |-> "AB1234", confidence |-> 90],
                       [bbox |-> <<13, 14, 50, 21>>, confidence |-> 80] >>
    /\ objects[Before.next_object_id].centroid = <<35, 20>>
    /\ objects[Before.next_object_id + 1].centroid = <<38, 24>>

\* C21: an update call that starts with at least one entity registers none:
\* the tracked ids gain no member and next_object_id is unchanged, whatever
\* detections were left unmatched; a call registers entities only when it has
\* a non-empty detection list and the tracker has no entity.
C21_NoRegistrationWhileTracking ==
    Returned =>
        /\ DOMAIN Before.objects # {} =>
              /\ DOMAIN objects \subseteq DOMAIN Before.objects
              /\ next_object_id = Before.next_object_id
        /\ (DOMAIN objects \ DOMAIN Before.objects # {}
              \/ next_object_id # Before.next_object_id)
              => DOMAIN Before.objects = {} /\ detections # <<>>

\* C21 happens: a call on a tracker with an entity had two detections, one
\* of them matched and the other, far from every entity, dropped.
C21_Witness ==
    /\ Returned /\ Len(detections) = 2 /\ Len(matches) = 1
    /\ DOMAIN Before.objects # {}
    /\ \E c \in DOMAIN detections :
          /\ \A k \in DOMAIN matches : matches[k].col # c
          /\ \A i \in DOMAIN Before.objects : ~Within(Away2(i, c))
    /\ DOMAIN objects = DOMAIN Before.objects

\* C22: entity ids are unique and strictly increasing in registration order
\* over the tracker's lifetime: every id in use lies below next_object_id,
\* next_object_id never goes down, and every id a call assigns is at or above
\* the next_object_id the call started with -- above every id assigned
\* before, also those of removed entities and after the tracker was empty.
C22_IdsNeverReused ==
    /\ \A i \in DOMAIN objects : i < next_object_id
    /\ Returned =>
          /\ \A i \in DOMAIN Before.objects : i < Before.next_object_id
          /\ next_object_id >= Before.next_object_id
          /\ \A i \in DOMAIN objects \ DOMAIN Before.objects :
                i >= Before.next_object_id
          /\ next_object_id - Before.next_object_id
                = Cardinality(DOMAIN objects \ DOMAIN Before.objects)

\* C22 happens: the tracker had assigned ids, lost all its entities, and a
\* call registered new ones.
C22_Witness ==
    /\ Returned
    /\ DOMAIN Before.objects = {} /\ Before.next_object_id > 0
    /\ DOMAIN objects # {}
    /\ \A i \in DOMAIN objects : i >= Before.next_object_id

\* C23: the identifier of an entity is sticky: matched to a detection with an
\* empty text it keeps its identifier, matched to one with a non-empty text
\* it takes that text, and not matched it keeps its identifier.
C23_IdentifierIsSticky ==
    Returned =>
        \A i \in DOMAIN objects \cap DOMAIN Before.objects :
            /\ ~Matched(i) => objects[i].plate_text = Before.objects[i].plate_text
            /\ \A k \in DOMAIN matches :
                  matches[k].object_id = i =>
                      LET text == Get(detections[matches[k].col], "text", "")
                      IN objects[i].plate_text =
                             IF text = "" THEN Before.objects[i].plate_text ELSE text

\* C23 happens: an entity that had kept its identifier through a match with
\* a detection without text (it sits at that detection's centre) is matched
\* to a detection with another text and takes it.
C23_Witness ==
    /\ Returned
    /\ \E k \in DOMAIN matches :
          LET i == matches[k].object_id
              text == Get(detections[matches[k].col], "text", "")
          IN /\ Before.objects[i].plate_text # ""
             /\ \E d \in TrackerDetections :
                   /\ Get(d, "text", "") = ""
                   /\ Centroid(d.bbox) = Before.objects[i].centroid
             /\ text # "" /\ text # Before.objects[i].plate_text
             /\ objects[i].plate_text = text

\* C24: the entity set update / get_tracked_objects returns exposes no
\* internal mutable structure: no change the caller makes to the returned
\* mapping, or to an entity record reached through it, changes the tracker's
\* state.
C24_CallerCannotChangeTracker ==
    [][ tpc = "returned" /\ tpc' = "returned"
          => UNCHANGED <<objects, disappeared, next_object_id>> ]_<<vars, tvars, lvars, bvars>>

\* C25: when the authorized-plates file is absent the lookup answers 'not
\* authorized' for every identifier and does not raise, so a cycle with a
\* non-empty detection list returns ACCESS_DENIED, whatever the safety status
\* is, and the session is left not authorized.
C25_AbsentStoreDenies ==
    (Evaluated /\ ~store.exists /\ Plates # <<>>)
        => /\ \A i \in DOMAIN Plates : verify_authorized_plate(store, Plates[i].text) = FALSE
           /\ Decision = "ACCESS_DENIED"
           /\ current_session.is_authorized = FALSE
           /\ AppendedOne("UNAUTHORIZED_PLATE")

\* C25 happens: with no file, a cycle that detected two plates and a drowsy
\* driver is denied.
C25_Witness ==
    /\ Evaluated /\ store = StoreAbsent
    /\ Len(Plates) = 2 /\ Plates[1].text # <<>>
    /\ Status.drowsy
    /\ Decision = "ACCESS_DENIED"

\* Two characters that are the same letter in either case, or the same character.
SameLetter(c, d) == c = d \/ {c, d} \in {{"a", "A"}, {"b", "B"}}
\* Two texts that differ at most in the case of their letters.
EqualIgnoringCase(x, y) ==
    Len(x) = Len(y) /\ \A i \in 1..Len(x) : SameLetter(x[i], y[i])
\* A line of the file without its line end.
LineText(line) ==
    IF line # <<>> /\ line[Len(line)] = "\n"
    THEN SubSeq(line, 1, Len(line) - 1) ELSE line
\* The lookup returned.
LookedUp == lookup_pc = "done"

\* C26 as stated: the lookup compares ignoring case: two identifiers that
\* differ only in letter case get the same answer, and an identifier is
\* authorized exactly when some line of the store equals it ignoring case.
C26_AuthorizedIffSomeLineEquals ==
    LookedUp
        => /\ \A other \in LookupTexts :
                 EqualIgnoringCase(other, lookup_text)
                     => verify_authorized_plate(lookup_store, other) = lookup_result
           /\ lookup_result
                 = \E i \in DOMAIN lookup_store.lines :
                      EqualIgnoringCase(LineText(lookup_store.lines[i]), lookup_text)

\* C26 amended: two identifiers that differ only in letter case get the same
\* answer, and an identifier is authorized exactly when some line of the
\* store, without the whitespace around it, equals it ignoring case; the
\* identifier is taken as passed.
C26_AuthorizedIffSomeStrippedLineEquals ==
    LookedUp
        => /\ \A other \in LookupTexts :
                 EqualIgnoringCase(other, lookup_text)
                     => verify_authorized_plate(lookup_store, other) = lookup_result
           /\ lookup_result
                 = \E i \in DOMAIN lookup_store.lines :
                      EqualIgnoringCase(strip(lookup_store.lines[i]), lookup_text)

\* C26 happens: "A1" is authorized by a file whose lines are an empty one
\* and "a1 ", and "a1" gets the same answer.
C26_Witness ==
    /\ LookedUp /\ lookup_result
    /\ lookup_text = <<"A", "1">>
    /\ lookup_store.lines = << <<"\n">>, <<"a", "1", " ", "\n">> >>
    /\ verify_authorized_plate(lookup_store, <<"a", "1">>)

\* C27: every violation record carries the subject's identifier, and the
\* sentinel "UNKNOWN" when the identifier is absent (an empty text): no
\* record is built or logged with an empty identifier.
C27_RecordsCarryIdentifier ==
    /\ \A i \in DOMAIN entries :
          entries[i].plate = IF Plates[1].text = <<>> THEN UNKNOWN ELSE Plates[1].text
    /\ \A i \in DOMAIN violation_log : violation_log[i].plate # <<>>

\* C28: an entity's track_history never holds more than its capacity of 10
\* centroids; a match appends the matched detection's centroid at the end,
\* after evicting the oldest centroid when the history is full, and an
\* update that does not match the entity leaves its history as it was.
C28_TrackHistoryIsBounded ==
    /\ \A i \in DOMAIN objects : Len(objects[i].track_history) <= 10
    /\ Returned =>
          \A i \in DOMAIN objects \cap DOMAIN Before.objects :
             LET old == Before.objects[i].track_history
                 kept == IF Len(old) = 10 THEN Tail(old) ELSE old
             IN /\ \A k \in DOMAIN matches :
                      matches[k].object_id = i =>
                          objects[i].track_history
                              = kept \o <<Centroid(detections[matches[k].col].bbox)>>
                /\ ~Matched(i) => objects[i].track_history = old

\* C28 happens: an entity whose history is full, with its two oldest
\* centroids different, is matched; the oldest is gone and the matched
\* detection's centroid is the newest.
C28_Witness ==
    /\ Returned
    /\ \E k \in DOMAIN matches :
          LET i == matches[k].object_id
              old == Before.objects[i].track_history
              new == objects[i].track_history
          IN /\ Len(old) = 10 /\ old[1] # old[2]
             /\ Len(new) = 10 /\ new[1] = old[2]
             /\ new[10] = Centroid(detections[matches[k].col].bbox)
             /\ new[10] # old[10]

\* The entity was registered by the call, from the call's detection c.
RegisteredFrom(i, c) ==
    /\ DOMAIN Before.objects = {}
    /\ c \in DOMAIN detections
    /\ i = Before.next_object_id + c - 1

\* C29: an entity's confidence_history holds the confidences of its most
\* recent detections: after an update registered an entity from a detection
\* or matched it to one, that detection's confidence is the newest element
\* of the entity's confidence_history, which never holds more than 5.
C29_ConfidenceHistoryFollowsDetections ==
    /\ \A i \in DOMAIN objects : Len(objects[i].confidence_history) <= 5
    /\ Returned =>
          \A i \in DOMAIN objects : \A c \in DOMAIN detections :
             (\/ RegisteredFrom(i, c)
              \/ \E k \in DOMAIN matches :
                    matches[k].object_id = i /\ matches[k].col = c)
                 => LET h == objects[i].confidence_history
                    IN h # <<>> /\ h[Len(h)] = detections[c].confidence

\* C30: between cycles violation_count equals the number of violation
\* records appended since the last session reset, the audit writes
\* succeeding; so a cycle whose audit write succeeds adds to violation_count
\* what it appends to the violation log, whatever its detections, their
\* authorization and the safety status are.
C30_CountMatchesRecords ==
    (pc = "key" /\ cycle.sink_ok)
        => current_session.violation_count - before.session.violation_count
               = Len(violation_log) - Len(before.violation_log)

\* C31: after a cycle whose decision is ACCESS_GRANTED or SAFETY_VIOLATION
\* the session's is_authorized is true and the session's plate_text is an
\* authorized text, also when the cycle carried several detections.
C31_GrantedSessionIsAuthorized ==
    (Evaluated /\ Decision \in {"ACCESS_GRANTED", "SAFETY_VIOLATION"})
        => /\ current_session.is_authorized = TRUE
           /\ verify_authorized_plate(store, current_session.plate_text)

NearestCols(i) ==
    { c \in DOMAIN detections :
         \A c2 \in DOMAIN detections : Away2(i, c) <= Away2(i, c2) }
\* The call matched the entity with the call's detection c.
MatchedWith(i, c) ==
    \E k \in DOMAIN matches : matches[k].object_id = i /\ matches[k].col = c
\* The squared distances between the entities the call started from, in key
\* order, and the call's detections.
Away2s(ids) ==
    list([r \in 1..Len(ids) |->
             list([c \in 1..Len(detections) |-> Away2(ids[r], c)])])

\* C33: when two entities have the same nearest detection, the detection is
\* matched to the entity strictly nearer to it (nearer than every other entity
\* the detection is nearest to) if it is within max_distance, and the other
\* entity gets no match in that call and stays as it was, even when another
\* detection lies within max_distance of it; every committed match pairs an
\* entity with a detection at minimum distance from it among the call's
\* detections.
C33_NearerEntityTakesSharedDetection ==
    Returned /\ detections # <<>> /\ DOMAIN Before.objects # {} =>
        \A ids \in {Keys(DOMAIN Before.objects)} : \A A \in {Away2s(ids)} :
           LET Nearest(r, c) == \A c2 \in DOMAIN detections : A[r][c] <= A[r][c2]
               OnlyNearest(r, c) ==
                   \A c2 \in DOMAIN detections \ {c} : A[r][c] < A[r][c2]
           IN /\ \A k \in DOMAIN matches :
                    \E r \in DOMAIN ids :
                       ids[r] = matches[k].object_id /\ Nearest(r, matches[k].col)
              /\ \A i, j \in DOMAIN ids : \A c \in DOMAIN detections :
                    ( /\ i # j
                      /\ OnlyNearest(i, c) /\ OnlyNearest(j, c)
                      /\ \A k \in DOMAIN ids \ {i} :
                            Nearest(k, c) => A[i][c] < A[k][c] )
                       => /\ MatchedWith(ids[i], c) <=> Within(A[i][c])
                          /\ Within(A[i][c]) =>
                                objects[ids[i]].centroid = Centroid(detections[c].bbox)
                          /\ ~Matched(ids[j])
                          /\ objects[ids[j]] = Before.objects[ids[j]]

\* C33 happens: two entities have the same nearest detection; the nearer one
\* is matched with it, and the other gets no match although the call's other
\* detection, not matched either, is within max_distance of it.
C33_Witness ==
    /\ Returned
    /\ \E i, j \in DOMAIN Before.objects : \E c, c2 \in DOMAIN detections :
          /\ i # j /\ c # c2
          /\ NearestCols(i) = {c} /\ NearestCols(j) = {c}
          /\ Away2(i, c) < Away2(j, c)
          /\ MatchedWith(i, c)
          /\ Within(Away2(j, c2))
          /\ ~Matched(j)
          /\ \A k \in DOMAIN matches : matches[k].col # c2
          /\ objects[j] = Before.objects[j]

\* C34: after every update call the entity map and the frames_missing
\* (disappeared) map have the same keys, every tracked entity's
\* frames_missing is between 0 and max_disappeared inclusive, and a matched
\* entity's frames_missing is 0.
C34_CountersStayInRange ==
    /\ DOMAIN objects = DOMAIN disappeared
    /\ \A i \in DOMAIN objects :
          disappeared[i] >= 0 /\ disappeared[i] <= max_disappeared
    /\ Returned => \A i \in DOMAIN objects : Matched(i) => disappeared[i] = 0

\* C34 happens: an entity that had reached max_disappeared, above 0, is
\* matched and its counter is 0 again.
C34_Witness ==
    /\ Returned
    /\ \E i \in DOMAIN objects :
          /\ Matched(i)
          /\ max_disappeared > 0
          /\ Before.disappeared[i] = max_disappeared
          /\ disappeared[i] = 0

\* C35: for every plate text, after add_authorized_plate returned True
\* verify_authorized_plate returns True for the same text, also for texts in
\* lower case or with whitespace around them; and adding a text that some
\* line of the store, without the whitespace around it, equals ignoring case
\* leaves the store as it is.
C35_AddThenVerify ==
    [][ /\ (lookup_pc = "added" /\ lookup_pc' = "verified") => lookup_result'
        /\ ( /\ lookup_pc = "call" /\ lookup_pc' = "added"
             /\ \E i \in DOMAIN lookup_store.lines :
                   EqualIgnoringCase(strip(lookup_store.lines[i]), lookup_text) )
              => lookup_store' = lookup_store
      ]_<<vars, tvars, lvars, bvars>>

\* The run has started the step.
Started(step) == \E i \in DOMAIN booth_steps : booth_steps[i] = step

\* C36: in a run of the toll booth the face check is started before the
\* plate scan; the plate scan and the final decision are started only after
\* the face check has ended with driver_safe true; ACCESS GRANTED is shown
\* only when the plate is authorized and driver_safe is true, so a run whose
\* driver was judged drowsy never shows it.
C36_FaceCheckGuardsTheScan ==
    /\ \A i \in DOMAIN booth_steps :
          booth_steps[i] \in {"plate_scan", "final_decision"}
              => /\ \E j \in 1..(i - 1) : booth_steps[j] = "face_check"
                 /\ booth_pc \in {"scan", "done"}
                 /\ driver_safe = TRUE
                 /\ ~drowsy_ratio(eye_closure_count, face_frame_count)
    /\ \A i \in DOMAIN booth_steps :
          booth_steps[i] = "final_decision"
              => \E j \in 1..(i - 1) : booth_steps[j] = "plate_scan"
    /\ booth_screen = "ACCESS GRANTED"
          => /\ driver_safe = TRUE
             /\ Started("final_decision")
             /\ detected_plate # None
             /\ verify_authorized_plate(booth_store, detected_plate.text)
    /\ driver_safe = FALSE
          => booth_screen \in {"DROWSY DRIVER DETECTED", "stopped"}

\* C36 happens: after a face check of several frames that found the driver
\* alert, the scan counted two plates and the run shows ACCESS GRANTED.
C36_Witness ==
    /\ booth_pc = "done"
    /\ booth_steps = <<"face_check", "plate_scan", "final_decision">>
    /\ face_frame_count > 1
    /\ detection_count = 2
    /\ booth_screen = "ACCESS GRANTED"

\* C37: in the plate scan of the toll booth the final decision is made only
\* after 2 frames with a detected plate have been counted; when the scan ends
\* with fewer than 2 (a failed camera read), no decision is made and access
\* is not granted.
C37_DecisionNeedsTwoDetections ==
    /\ Started("final_decision") => detection_count = 2
    /\ (booth_pc = "done" /\ Started("plate_scan") /\ detection_count < 2)
          => /\ ~Started("final_decision")
             /\ booth_screen # "ACCESS GRANTED"

====
